---- MODULE Spec2Model ----
(***************************************************************************)
(* Model of the kernel k-means estimator KKMeans_frankenstein              *)
(* (src/pygraphs/cluster/kkmeans_old.py): construction, fit (restart loop, *)
(* reassignment loop, empty-cluster recovery, distance compensation,       *)
(* inertia, restart selection) and predict.                                *)
(*                                                                         *)
(* Reals are represented exactly as integers in units of 1/Scale           *)
(* (distances) and 1/Scale^2 (inertia); floating-point rounding is not     *)
(* modelled.  Cluster ids are 0-based as in the source; sequences are      *)
(* 1-based, so cluster j lives at position j+1 of a row.                   *)
(***************************************************************************)
EXTENDS Integers, Sequences, FiniteSets, TLC

\* ------------------------------------------------------------------ bounds
\* max_iter is drawn from 0..MaxIter, n_init from 0..MaxInit, and an
\* estimator is fitted at most MaxFits times and asked to predict at most
\* MaxPredicts times after each fit.
MaxIter == 2
MaxInit == 3
MaxFits == 2
MaxPredicts == 2

\* Fixed-point denominator: every cluster weight sum of the inputs below is
\* in 1..4, so every quotient by denom or denom^2 is exact in units of 1/144.
Scale == 12 * 12

\* ------------------------------------------------------------- arithmetic
RECURSIVE Sum(_, _)
Sum(f, S) ==
  IF S = {} THEN 0
  ELSE LET x == CHOOSE y \in S : TRUE IN f[x] + Sum(f, S \ {x})

MinOf(S) == CHOOSE x \in S : \A y \in S : x <= y

\* ------------------------------------------------------------------ inputs
\* Kernel matrices handed to fit (kernel='precomputed': K is X itself).
KOne    == << <<41>> >>
KPair   == << <<1, 0>>, <<0, 1>> >>
Kernels == {KOne, KPair}

\* The sample_weight argument of fit: <<>> stands for None.
WeightArgs(K) == {<<>>} \cup (IF K = KPair THEN {<<2, 1>>} ELSE {})

Labelings(n, k) == [1..n -> 0..(k - 1)]

Ones(n) == [m \in 1..n |-> 1]
Zeros(n) == [m \in 1..n |-> 0]

\* ------------------------------------------------------------ construction
\* Constructor arguments: a field holding Absent was not passed, and
\* __init__ fills in the default of its signature.
Absent == "<absent>"
DefaultStrategy == "max"
DefaultCompensation == "+40"
DefaultObjective == "inertia"

KKMeans_init(args) ==
  [ n_clusters |-> args.n_clusters,
    max_iter |-> args.max_iter,
    tol |-> args.tol,
    n_init |-> args.n_init,
    init_choose_objective |->
      IF args.init_choose_objective = Absent THEN DefaultObjective
      ELSE args.init_choose_objective,
    init_choose_strategy |->
      IF args.init_choose_strategy = Absent THEN DefaultStrategy
      ELSE args.init_choose_strategy,
    dist_compensation_strategy |->
      IF args.dist_compensation_strategy = Absent THEN DefaultCompensation
      ELSE args.dist_compensation_strategy,
    random_state |-> args.random_state ]

\* ------------------------------------------------------- _compute_dist
Mask(labels, j) == {m \in 1..Len(labels) : labels[m] = j}

\* The cluster at which the loop over j breaks (k when no cluster is empty).
FirstEmpty(labels, k) ==
  LET E == {j \in 0..(k - 1) : Mask(labels, j) = {}}
  IN IF E = {} THEN k ELSE MinOf(E)

Denom(sw, C) == Sum([m \in C |-> sw[m]], C)

\* np.sum(np.outer(sw[mask], sw[mask]) * KK / denomsq), in units of 1/Scale
WithinOf(K, sw, C) ==
  LET rowsum == [p \in C |-> Sum([q \in C |-> sw[p] * sw[q] * K[p][q]], C)]
      denom == Denom(sw, C)
  IN (Sum(rowsum, C) * Scale) \div (denom * denom)

\* 2 * np.sum(sw[mask] * K[:, mask], axis=1) / denom for row i, in 1/Scale
CrossOf(K, sw, C, i) ==
  (2 * Sum([m \in C |-> sw[m] * K[i][m]], C) * Scale) \div Denom(sw, C)

\* _compute_dist on a zeroed dist: the columns before the first empty
\* cluster are computed, the others stay 0; an empty cluster replaces the
\* labels by the fresh draw and zeroes the within distances.
ComputeDist(K, labels, within, sw, k, update_within, fresh) ==
  LET fe == FirstEmpty(labels, k)
      wj == [c \in 1..k |->
               IF c - 1 >= fe THEN 0
               ELSE IF update_within THEN WithinOf(K, sw, Mask(labels, c - 1))
               ELSE within[c]]
      d == [r \in 1..Len(K) |->
              [c \in 1..k |->
                 IF c - 1 < fe
                 THEN wj[c] - CrossOf(K, sw, Mask(labels, c - 1), r)
                 ELSE 0]]
  IN [ dist |-> d,
       labels |-> IF fe < k THEN fresh ELSE labels,
       within |-> IF fe < k THEN Zeros(k)
                  ELSE IF update_within THEN wj
                  ELSE within,
       recovered |-> fe < k ]

\* Mutant of ArgMinRow: among equal minima the last column wins.
ArgMinRow_Last(row) ==
  CHOOSE c \in 0..(Len(row) - 1) :
    /\ \A c2 \in 1..Len(row) : row[c + 1] <= row[c2]
    /\ \A c2 \in 1..Len(row) : row[c2] = row[c + 1] => c2 <= c + 1

\* dist.argmin(axis=1): the first minimal column of each row
ArgMinRow(row) ==
  MinOf({c \in 1..Len(row) : \A c2 \in 1..Len(row) : row[c] <= row[c2]}) - 1

ArgMin(dist) == [r \in 1..Len(dist) |-> ArgMinRow(dist[r])]

\* 1 - n_same / n_samples < tol, with tol = tol[1] / tol[2]
NSame(labels, old) == Cardinality({m \in 1..Len(labels) : labels[m] = old[m]})

Converged(labels, old, tol) ==
  (Len(labels) - NSame(labels, old)) * tol[2] < tol[1] * Len(labels)

\* ------------------------------------------------ compensation, inertia
KnownCompensation == {"+40", "<0->0", "-min"}

Entries(dist) == {dist[r][c] : r \in 1..Len(dist), c \in 1..Len(dist[1])}

Compensate(dist, strategy) ==
  LET lowest == MinOf(Entries(dist)) IN
  [r \in 1..Len(dist) |->
     [c \in 1..Len(dist[r]) |->
        CASE strategy = "+40" -> dist[r][c] + 40 * Scale
          [] strategy = "<0->0" -> IF dist[r][c] < 0 THEN 0 ELSE dist[r][c]
          [] strategy = "-min" -> dist[r][c] - lowest]]

AllNonNegative(dist) == \A x \in Entries(dist) : x >= 0

\* np.sum([d[l] ** 2 for d, l in zip(dist, labels)]), in units of 1/Scale^2
Inertia(dist, labels) ==
  Sum([r \in 1..Len(dist) |-> dist[r][labels[r] + 1] * dist[r][labels[r] + 1]],
      1..Len(dist))

\* ------------------------------------------------------------ selection
KnownStrategy == {"max", "min", "median"}

Key(r, objective) == IF objective = "inertia" THEN r.inertia ELSE r.n_iter

\* Mutant of InsertSorted: the list ends up in descending order.
InsertSorted_Descending(sorted, r, objective) ==
  LET ge == {p \in 1..Len(sorted) : Key(sorted[p], objective) >= Key(r, objective)}
      at == Cardinality(ge)
  IN SubSeq(sorted, 1, at) \o <<r>> \o SubSeq(sorted, at + 1, Len(sorted))

\* list.sort(key=...): ascending and stable
InsertSorted(sorted, r, objective) ==
  LET le == {p \in 1..Len(sorted) : Key(sorted[p], objective) <= Key(r, objective)}
      at == Cardinality(le)
  IN SubSeq(sorted, 1, at) \o <<r>> \o SubSeq(sorted, at + 1, Len(sorted))

RECURSIVE SortResults(_, _)
SortResults(rs, objective) ==
  IF rs = <<>> THEN <<>>
  ELSE InsertSorted(SortResults(SubSeq(rs, 1, Len(rs) - 1), objective),
                    rs[Len(rs)], objective)

\* Mutant of PickPosition: 'median' takes the lower middle position.
PickPosition_LowerMedian(len, strategy) ==
  CASE strategy = "max" -> len
    [] strategy = "min" -> 1
    [] strategy = "median" -> (len + 1) \div 2

\* results[-1], results[0], results[len(results) // 2] as 1-based positions
PickPosition(len, strategy) ==
  CASE strategy = "max" -> len
    [] strategy = "min" -> 1
    [] strategy = "median" -> (len \div 2) + 1

\* --------------------------------------------------------- random source
\* check_random_state(None) is numpy's global generator: any labeling can
\* come out of any draw.  check_random_state(int) builds a new generator
\* from the seed: its d-th draw is a function of the seed, fixed the first
\* time it is observed (seedDraws) and replayed by every later generator
\* built from the same seed.
SeededDraw(memo, d, n, k) ==
  IF d <= Len(memo) THEN {memo[d]} ELSE Labelings(n, k)

Randint(random_state, memo, d, n, k) ==
  IF random_state = "None" THEN Labelings(n, k) ELSE SeededDraw(memo, d, n, k)

Remember(random_state, memo, d, drawn) ==
  IF random_state # "None" /\ d = Len(memo) + 1 THEN Append(memo, drawn) ELSE memo

\* Mutant of RecoveryDraws: the empty-cluster branch takes the next draw of
\* the generator that draws the restarts' initial labelings.
RecoveryDraws_SharedGenerator(random_state, memo, n, k) ==
  Randint(random_state, memo, Len(memo) + 1, n, k)

\* Mutant of RecoveryDraws: the empty-cluster branch draws from numpy's
\* global generator instead of one built from random_state.
RecoveryDraws_Global(random_state, memo, n, k) == Labelings(n, k)

\* The draw of the generator that the empty-cluster branch builds anew:
\* always the first draw of a fresh check_random_state(self.random_state).
RecoveryDraws(random_state, memo, n, k) == Randint(random_state, memo, 1, n, k)

\* ------------------------------------------- kernel matrix provider
\* The kernel classes of measure/kernel.py.  A value returned by get_K is
\* described by what the caller can rely on: a rows x cols matrix, None, or
\* the TypeError raised when a matrix function is applied to None.
OwnGetK == {"pWalk_H", "For_H", "Comm_H", "Heat_H", "SCT_H", "SCCT_H",
            "CT_H", "SPCT_H", "SP_K"}
LogOfParent == {"Walk_H", "logFor_H", "logComm_H", "logHeat_H"}
FromDistance == {"pWalk_K", "Walk_K", "For_K", "logFor_K", "Comm_K",
                 "logComm_K", "Heat_K", "logHeat_K", "SCT_K", "SCCT_K",
                 "RSP", "FE", "RSP2", "FE2", "old_RSP", "old_FE", "SPCT_K"}
KernelClasses == OwnGetK \cup LogOfParent \cup FromDistance

\* self.parent_distance of the classes whose get_K transforms another H0
ParentOf(class) ==
  CASE class = "Walk_H" -> "pWalk_H"
    [] class = "logFor_H" -> "For_H"
    [] class = "logComm_H" -> "Comm_H"
    [] class = "logHeat_H" -> "Heat_H"

Matrix(rows, cols) == [kind |-> "matrix", rows |-> rows, cols |-> cols]
None == [kind |-> "None", rows |-> 0, cols |-> 0]
Raised == [kind |-> "TypeError", rows |-> 0, cols |-> 0]

\* H0_to_H and D_to_K work element by element: the shape is kept, and None
\* in place of a matrix raises.
H0_to_H(H0) == IF H0.kind = "matrix" THEN H0 ELSE Raised
D_to_K(D) == IF D.kind = "matrix" THEN D ELSE Raised

\* parent_distance.get_D(param) of the distance classes: an n x n matrix
get_D(class, A, param) == Matrix(Len(A), Len(A))

\* get_K of each class: pinv, expm and the element-wise expressions return
\* a matrix of the shape of A; Comm_H returns None from t = 30 on.
RECURSIVE get_K(_, _, _)
get_K(class, A, t) ==
  IF class = "Comm_H"
  THEN IF t < 30 THEN Matrix(Len(A), Len(A)) ELSE None
  ELSE IF class \in OwnGetK THEN Matrix(Len(A), Len(A))
  ELSE IF class \in LogOfParent THEN H0_to_H(get_K(ParentOf(class), A, t))
  ELSE D_to_K(get_D(class, A, t))

\* No kernel object constructed yet.
NoKernel == [class |-> "<none>", A |-> <<>>, param |-> -1, K |-> None]

\* --------------------------------------------------------------- state
VARIABLES
  cfg,               \* the constructor's parameters (self.n_clusters, ...)
  given,             \* the constructor arguments as passed (Absent: omitted)
  X,                 \* the kernel matrix the caller fits
  sample_weight,     \* the sample_weight argument (<<>>: None)
  labels_,           \* self.labels_ (<<>>: attribute not set)
  within_distances_, \* self.within_distances_
  sample_weight_,    \* self.sample_weight_
  n_iter_,           \* self.n_iter_ (-1: attribute not set)
  X_fit_,            \* self.X_fit_
  pc,                \* idle | restart | iter | score | done | error
  err,               \* the exception that ended the last fit call
  i,                 \* fit's restart index
  it,                \* fit's iteration index (-1 before a restart's first pass)
  dist,              \* fit's dist matrix
  labels_old,        \* fit's labels_old (<<>> outside the loop)
  results,           \* fit's results list
  seedDraws,         \* draws observed so far of the generator seeded by random_state
  fits,              \* fit calls made
  predicts,          \* predict calls made since the last fit
  before,            \* the model attributes when the current fit call began
  nDraws,            \* labelings drawn by the current fit call
  nDist,             \* _compute_dist calls of the current fit call
  nRecover,          \* empty-cluster recoveries of the current fit call
  exceeded,          \* 'n iter exceeded' printed for the restart just scored
  picked,            \* position selected in the sorted results (0: none)
  fitLog,            \* [labels, distances, n_iter] installed by each completed fit
  predictLog,        \* [K, out] of each predict call since the last fit
  kernel             \* the kernel object: its class, A, and get_K's last param and return

vars == << cfg, given, X, sample_weight, labels_, within_distances_,
           sample_weight_, n_iter_, X_fit_, pc, err, i, it, dist, labels_old,
           results, seedDraws, fits, predicts, before, nDraws, nDist,
           nRecover, exceeded, picked, fitLog, predictLog, kernel >>

attrs == << labels_, within_distances_, sample_weight_, n_iter_, X_fit_ >>
locals == << i, it, dist, labels_old, results >>
inputs == << cfg, given, X, sample_weight, kernel >>

Attributes ==
  [ labels |-> labels_, within |-> within_distances_,
    weights |-> sample_weight_, n_iter |-> n_iter_, X_fit |-> X_fit_ ]

\* ----------------------------------------------------------------- Init
Tols == { <<1, 1000>> }
Strategies == {"min", "median", "mean"}
Compensations == {"<0->0", "-min", "abs"}
Objectives == {"n_iter"}
RandomStates == {"None", "int"}
ClusterCounts == {1, 2}

\* The constructor's policies are varied one at a time around the defaults
\* of its signature: the compensation policy, the selection strategy, the
\* selection objective.
Policies ==
  [ init_choose_objective : {Absent},
    init_choose_strategy : {Absent},
    dist_compensation_strategy : Compensations \cup {Absent} ]
  \cup
  [ init_choose_objective : {Absent},
    init_choose_strategy : Strategies,
    dist_compensation_strategy : {Absent} ]
  \cup
  [ init_choose_objective : Objectives,
    init_choose_strategy : {Absent},
    dist_compensation_strategy : {Absent} ]

ArgsOf(clusters, iters, inits, policies, seeds) ==
  { [ n_clusters |-> k,
      max_iter |-> mi,
      tol |-> t,
      n_init |-> ni,
      init_choose_objective |-> p.init_choose_objective,
      init_choose_strategy |-> p.init_choose_strategy,
      dist_compensation_strategy |-> p.dist_compensation_strategy,
      random_state |-> rs ] :
    k \in clusters, mi \in iters, t \in Tols, ni \in inits, p \in policies,
    rs \in seeds }

CtorArgs == ArgsOf(ClusterCounts, 0..MaxIter, 0..MaxInit, Policies, RandomStates)

\* The state after construction, with the constructor arguments drawn from
\* A and the data the caller holds drawn from Ks.
InitOf(A, Ks) ==
  /\ given \in A
  /\ cfg = KKMeans_init(given)
  /\ X \in Ks
  /\ sample_weight \in WeightArgs(X)
  /\ labels_ = <<>> /\ within_distances_ = <<>> /\ sample_weight_ = <<>>
  /\ n_iter_ = -1 /\ X_fit_ = <<>>
  /\ pc = "idle" /\ err = "none"
  /\ i = 0 /\ it = -1 /\ dist = <<>> /\ labels_old = <<>> /\ results = <<>>
  /\ seedDraws = <<>>
  /\ fits = 0 /\ predicts = 0
  /\ before = Attributes
  /\ nDraws = 0 /\ nDist = 0 /\ nRecover = 0
  /\ exceeded = FALSE /\ picked = 0
  /\ fitLog = <<>> /\ predictLog = <<>>
  /\ kernel = NoKernel

Init == InitOf(CtorArgs, Kernels)

\* ------------------------------------------------------------------ fit
\* Mutant of CheckFitParams: the max_iter check is missing.
CheckFitParams_NoIterCheck(c, n) ==
  IF n < c.n_clusters THEN "ValueError: n_clusters"
  ELSE IF c.n_init <= 0 THEN "ValueError: n_init"
  ELSE "ok"

\* Lines 153-160: _check_fit_data, then the n_init and max_iter checks.
CheckFitParams(c, n) ==
  IF n < c.n_clusters THEN "ValueError: n_clusters"
  ELSE IF c.n_init <= 0 THEN "ValueError: n_init"
  ELSE IF c.max_iter <= 0 THEN "ValueError: max_iter"
  ELSE "ok"

\* fit is called (lines 153-166): the checks, then sample_weight_, K, rs and
\* the empty results list.
FitCall ==
  /\ pc \in {"idle", "done", "error"}
  /\ fits < MaxFits
  /\ fits' = fits + 1
  /\ predicts' = 0 /\ predictLog' = <<>>
  /\ before' = Attributes
  /\ nDraws' = 0 /\ nDist' = 0 /\ nRecover' = 0
  /\ exceeded' = FALSE /\ picked' = 0
  /\ i' = 0 /\ it' = -1 /\ dist' = <<>> /\ labels_old' = <<>> /\ results' = <<>>
  /\ LET chk == CheckFitParams(cfg, Len(X)) IN
       IF chk # "ok"
       THEN /\ pc' = "error" /\ err' = chk
            /\ UNCHANGED sample_weight_
       ELSE /\ pc' = "restart" /\ err' = "none"
            /\ sample_weight_' =
                 IF sample_weight = <<>> THEN Ones(Len(X)) ELSE sample_weight
  /\ UNCHANGED << inputs, labels_, within_distances_, n_iter_, X_fit_,
                  seedDraws, fitLog >>

\* Lines 167-170: a restart begins with a zeroed dist, labels drawn from
\* fit's generator rs (its draw number i+1) and zeroed within distances.
RestartInit ==
  /\ pc = "restart"
  /\ i < cfg.n_init
  /\ \E drawn \in Randint(cfg.random_state, seedDraws, i + 1, Len(X), cfg.n_clusters) :
       /\ labels_' = drawn
       /\ seedDraws' = Remember(cfg.random_state, seedDraws, i + 1, drawn)
  /\ dist' = [r \in 1..Len(X) |-> Zeros(cfg.n_clusters)]
  /\ within_distances_' = Zeros(cfg.n_clusters)
  /\ it' = -1
  /\ nDraws' = nDraws + 1
  /\ pc' = "iter"
  /\ UNCHANGED << inputs, sample_weight_, n_iter_, X_fit_, err, i, labels_old,
                  results, fits, predicts, before, nDist, nRecover, exceeded,
                  picked, fitLog, predictLog >>

\* Lines 172-184: one pass of the reassignment loop, and the loop's exit
\* (the break on convergence, or range(max_iter) exhausted).
Iterate ==
  /\ pc = "iter"
  /\ LET fe == FirstEmpty(labels_, cfg.n_clusters)
         fresh == IF fe < cfg.n_clusters
                  THEN RecoveryDraws(cfg.random_state, seedDraws, Len(X), cfg.n_clusters)
                  ELSE {labels_}
     IN \E f \in fresh :
        \E r \in {ComputeDist(X, labels_, within_distances_, sample_weight_,
                               cfg.n_clusters, TRUE, f)} :
        \E new \in {ArgMin(r.dist)} :
             /\ dist' = r.dist
             /\ within_distances_' = r.within
             /\ labels_old' = r.labels
             /\ labels_' = new
             /\ nRecover' = IF r.recovered THEN nRecover + 1 ELSE nRecover
             /\ nDraws' = IF r.recovered THEN nDraws + 1 ELSE nDraws
             /\ pc' = IF Converged(new, r.labels, cfg.tol) \/ it + 1 = cfg.max_iter - 1
                      THEN "score" ELSE "iter"
  /\ it' = it + 1
  /\ nDist' = nDist + 1
  /\ UNCHANGED << inputs, sample_weight_, n_iter_, X_fit_, err, i, results,
                  seedDraws, fits, predicts, before, exceeded, picked, fitLog,
                  predictLog >>

\* Mutant of AppendResult: the records hold the estimator's label and
\* within-distance buffers themselves instead of copies, so every record
\* shows what the buffers hold now.
AppendResult_SharedBuffers(rs, result) ==
  [p \in 1..Len(rs) |-> [rs[p] EXCEPT !.labels = result.labels,
                                      !.distances = result.distances]]
    \o <<result>>

\* results.append(result), the record holding copies of the two arrays
AppendResult(rs, result) == Append(rs, result)

\* Lines 186-217: the diagnostic, the compensation and its assertion, the
\* inertia and the restart's record.
Score ==
  /\ pc = "score"
  /\ exceeded' = (it = cfg.max_iter - 1)
  /\ labels_old' = <<>>
  /\ IF cfg.dist_compensation_strategy \notin KnownCompensation
     THEN /\ pc' = "error" /\ err' = "TypeError: compensation"
          /\ UNCHANGED << dist, results, i >>
     ELSE \E d \in {Compensate(dist, cfg.dist_compensation_strategy)} :
          /\ dist' = d
          /\ IF ~AllNonNegative(d)
             THEN /\ pc' = "error" /\ err' = "AssertionError"
                  /\ UNCHANGED << results, i >>
             ELSE /\ results' = AppendResult(results,
                                  [ inertia |-> Inertia(d, labels_),
                                    n_iter |-> it + 1,
                                    labels |-> labels_,
                                    distances |-> within_distances_ ])
                  /\ i' = i + 1
                  /\ pc' = "restart" /\ err' = "none"
  /\ UNCHANGED << inputs, attrs, it, seedDraws, fits, predicts, before,
                  nDraws, nDist, nRecover, picked, fitLog, predictLog >>

\* Lines 219-234: the sort, the pick, and the fitted attributes.
Select ==
  /\ pc = "restart"
  /\ i = cfg.n_init
  /\ \E sorted \in {SortResults(results, cfg.init_choose_objective)} :
     /\ results' = sorted
     /\ IF cfg.init_choose_strategy \notin KnownStrategy
        THEN /\ pc' = "error" /\ err' = "TypeError: strategy"
             /\ UNCHANGED << attrs, picked, fitLog >>
        ELSE LET pos == PickPosition(Len(sorted), cfg.init_choose_strategy)
                 result == sorted[pos]
             IN /\ labels_' = result.labels
                /\ within_distances_' = result.distances
                /\ n_iter_' = result.n_iter
                /\ X_fit_' = X
                /\ picked' = pos
                /\ fitLog' = Append(fitLog, [ labels |-> result.labels,
                                              distances |-> result.distances,
                                              n_iter |-> result.n_iter ])
                /\ pc' = "done" /\ err' = "none"
                /\ UNCHANGED sample_weight_
  /\ UNCHANGED << inputs, i, it, dist, labels_old, seedDraws, fits, predicts,
                  before, nDraws, nDist, nRecover, exceeded, predictLog >>

\* -------------------------------------------------------------- predict
\* New kernel matrices: rows are new samples, columns the fitted samples.
PredictInputs(Xfit) == {Xfit, <<Xfit[1]>>}

\* Lines 284-289.
Predict ==
  /\ pc = "done"
  /\ predicts < MaxPredicts
  /\ \E Knew \in PredictInputs(X_fit_) :
       LET k == cfg.n_clusters
           fe == FirstEmpty(labels_, k)
           fresh == IF fe < k
                    THEN RecoveryDraws(cfg.random_state, seedDraws, Len(labels_), k)
                    ELSE {labels_}
       IN \E f \in fresh :
          \E r \in {ComputeDist(Knew, labels_, within_distances_,
                                 sample_weight_, k, FALSE, f)} :
               /\ labels_' = r.labels
               /\ within_distances_' = r.within
               /\ predictLog' = Append(predictLog,
                                       [ K |-> Knew, out |-> ArgMin(r.dist) ])
  /\ predicts' = predicts + 1
  /\ UNCHANGED << inputs, sample_weight_, n_iter_, X_fit_, pc, err, locals,
                  seedDraws, fits, before, nDraws, nDist, nRecover, exceeded,
                  picked, fitLog >>

\* ------------------------------------------------ kernel matrix provider
\* Adjacency matrices of the path graphs on 2 and 3 nodes and of the
\* triangle, and the scalar parameters handed to get_K.
Graphs == { << <<0, 1>>, <<1, 0>> >>,
            << <<0, 1, 0>>, <<1, 0, 1>>, <<0, 1, 0>> >>,
            << <<0, 1, 1>>, <<1, 0, 1>>, <<1, 1, 0>> >> }
ParamValues == {0, 1, 29, 30, 31}

estimator == << cfg, given, X, sample_weight, labels_, within_distances_,
                sample_weight_, n_iter_, X_fit_, pc, err, i, it, dist,
                labels_old, results, seedDraws, fits, predicts, before,
                nDraws, nDist, nRecover, exceeded, picked, fitLog, predictLog >>

\* class(A): a kernel object is constructed for a graph.
Kernel_init ==
  /\ kernel = NoKernel
  /\ \E class \in KernelClasses, A \in Graphs :
       kernel' = [class |-> class, A |-> A, param |-> -1, K |-> None]
  /\ UNCHANGED estimator

\* kernel.get_K(param)
GetK ==
  /\ kernel # NoKernel
  /\ kernel.param = -1
  /\ \E t \in ParamValues :
       kernel' = [kernel EXCEPT !.param = t,
                                !.K = get_K(kernel.class, kernel.A, t)]
  /\ UNCHANGED estimator

\* ------------------------------------------------------- specifications
\* One estimator, fitted once.
FirstFit == fits = 0 /\ FitCall

Next == FirstFit \/ RestartInit \/ Iterate \/ Score \/ Select

Spec == Init /\ [][Next]_vars

\* A session on one estimator: fit, predict, fit again.
SessionPolicies ==
  [ init_choose_objective : {Absent},
    init_choose_strategy : {Absent},
    dist_compensation_strategy : {"-min", "abs"} ]

SessionArgs == ArgsOf(ClusterCounts, 1..MaxIter, {1}, SessionPolicies, RandomStates)

InitSession == InitOf(SessionArgs, Kernels)

NextSession == FitCall \/ RestartInit \/ Iterate \/ Score \/ Select \/ Predict

SpecSession == InitSession /\ [][NextSession]_vars

\* The block scenario: two blocks of two samples, k = 2, one restart,
\* tol = 1e-3, max_iter = 50, shift-min compensation, unit weights, every
\* initial labeling, with and without an integer seed.
KBlock == << <<1, 1, 0, 0>>, <<1, 1, 0, 0>>, <<0, 0, 1, 1>>, <<0, 0, 1, 1>> >>

BlockPolicies ==
  [ init_choose_objective : {Absent},
    init_choose_strategy : {Absent},
    dist_compensation_strategy : {"-min"} ]

BlockArgs == ArgsOf({2}, {50}, {1}, BlockPolicies, RandomStates)

InitBlock == InitOf(BlockArgs, {KBlock})

SpecBlock == InitBlock /\ [][Next]_vars

\* Short restarts: the block kernel and the pair kernel, k = 2, one restart
\* of 1..MaxIter iterations.
ShortArgs == ArgsOf({2}, 1..MaxIter, {1}, BlockPolicies, RandomStates)

InitShort == InitOf(ShortArgs, {KBlock, KPair})

SpecShort == InitShort /\ [][Next]_vars

\* The kernel matrix provider: a kernel object is constructed and asked
\* for its matrix; the estimator stays as constructed.
ProviderArgs == ArgsOf({1}, {1}, {1}, BlockPolicies, {"None"})

InitProvider == InitOf(ProviderArgs, {KOne})

NextProvider == Kernel_init \/ GetK

SpecProvider == InitProvider /\ [][NextProvider]_vars

\* ================================================================ claims
AllClustersUsed(labels, k) == \A j \in 0..(k - 1) : Mask(labels, j) # {}

Installed == fitLog[Len(fitLog)]

\* C1: the label assignment fit installs as the fitted model uses every
\* cluster id 0..k-1 at least once.
C1_NoEmptyClusterInstalled ==
  pc = "done" => AllClustersUsed(Installed.labels, cfg.n_clusters)

\* C2: in the block scenario fit ends with samples 0 and 1 sharing one
\* label, samples 2 and 3 sharing the other label, and inertia 0.
C2_BlockScenarioResult ==
  pc = "done" =>
    /\ labels_[1] = labels_[2]
    /\ labels_[3] = labels_[4]
    /\ labels_[1] # labels_[3]
    /\ results[picked].inertia = 0

\* C3: predict leaves the fitted labels, the fitted within-cluster distances
\* and the sample weights unchanged, and two predict calls with the same
\* K_new return the same labels.
C3_PredictLeavesModel ==
  (pc = "done" /\ predictLog # <<>>) =>
    /\ labels_ = Installed.labels
    /\ within_distances_ = Installed.distances
    /\ sample_weight_ = (IF sample_weight = <<>> THEN Ones(Len(X)) ELSE sample_weight)
    /\ \A a, b \in 1..Len(predictLog) :
         predictLog[a].K = predictLog[b].K => predictLog[a].out = predictLog[b].out

\* C4: under each of the three compensation policies every entry of the
\* compensated distance matrix is >= 0, so the assertion of fit never fails.
C4_CompensatedNonNegative ==
  /\ err # "AssertionError"
  /\ (cfg.dist_compensation_strategy \in KnownCompensation /\ pc = "restart" /\ i > 0)
       => AllNonNegative(dist)

\* C5: when a fit call ends with an error, the model attributes are exactly
\* what they were before the call.
C5_ErrorLeavesModelUntouched ==
  pc = "error" => Attributes = before

\* C6: with an unrecognized compensation policy or selection strategy the
\* fit call fails before any restart is initialized and before any
\* iteration is run.
C6_UnknownPolicyFailsAtCallTime ==
  ( /\ fits > 0
    /\ \/ cfg.dist_compensation_strategy \notin KnownCompensation
       \/ cfg.init_choose_strategy \notin KnownStrategy )
  => (pc = "error" /\ nDraws = 0 /\ nDist = 0)

\* C7: a fit call with n_init <= 0, max_iter <= 0 or n_clusters > n_samples
\* ends with a ValueError and computes nothing: no labels drawn, no distance
\* matrix computed, no restart result recorded, no attribute set.
InvalidParams ==
  cfg.n_init <= 0 \/ cfg.max_iter <= 0 \/ cfg.n_clusters > Len(X)

C7_InvalidParamsNoComputation ==
  (fits > 0 /\ InvalidParams) =>
    /\ pc = "error"
    /\ err \in {"ValueError: n_clusters", "ValueError: n_init", "ValueError: max_iter"}
    /\ nDraws = 0 /\ nDist = 0 /\ results = <<>>
    /\ labels_ = <<>> /\ within_distances_ = <<>> /\ sample_weight_ = <<>>

C7_Witness ==
  /\ pc = "error" /\ err = "ValueError: max_iter"
  /\ cfg.max_iter <= 0 /\ cfg.n_init > 0 /\ cfg.n_clusters <= Len(X)

\* C8: with an integer seed and n_init = 1, every fit of the same K with the
\* same parameters installs the same labels, within-cluster distances and
\* iteration count.
C8_SeededFitReproducible ==
  (cfg.random_state = "int" /\ cfg.n_init = 1) =>
    \A a, b \in 1..Len(fitLog) : fitLog[a] = fitLog[b]

C8_Witness ==
  /\ cfg.random_state = "int" /\ cfg.n_init = 1
  /\ Len(fitLog) >= 2 /\ pc = "done" /\ nRecover > 0

\* The restart a strategy picks from a list of restart results.
PickFrom(rs, objective, strategy) ==
  SortResults(rs, objective)[PickPosition(Len(rs), strategy)]

InertiaOrdered(rs, objective) ==
  /\ PickFrom(rs, objective, "min").inertia <= PickFrom(rs, objective, "median").inertia
  /\ PickFrom(rs, objective, "median").inertia <= PickFrom(rs, objective, "max").inertia

\* C9 (as claimed): for every non-empty list of restart results, the inertia
\* picked by 'min' is <= the one picked by 'median', which is <= the one
\* picked by 'max'.
C9_InertiaOrderedByStrategy ==
  results # <<>> => InertiaOrdered(results, cfg.init_choose_objective)

\* C9 (amended): the ordering holds when the list is sorted by the inertia
\* objective.
C9_InertiaOrderedUnderInertiaObjective ==
  (results # <<>> /\ cfg.init_choose_objective = "inertia")
    => InertiaOrdered(results, cfg.init_choose_objective)

C9_Witness ==
  /\ pc = "done" /\ cfg.init_choose_objective = "inertia"
  /\ Len(results) >= 3
  /\ results[1].inertia < results[2].inertia
  /\ results[2].inertia < results[3].inertia

\* C10: constructed without init_choose_strategy, fit selects the restart in
\* the middle of the sorted list (the documented default 'median').
C10_DefaultStrategyIsMedian ==
  (pc = "done" /\ given.init_choose_strategy = Absent)
    => picked = (Len(results) \div 2) + 1

\* C11: after fit the restart results are in ascending order of the
\* configured objective; the selected position (0-based) is 0 for 'min',
\* n_init - 1 for 'max' and floor(n_init / 2) for 'median'; the fitted
\* labels, within-cluster distances and iteration count are those of the
\* record at that position.
C11_SelectionBySortedPosition ==
  pc = "done" =>
    /\ Len(results) = cfg.n_init
    /\ \A p \in 1..(Len(results) - 1) :
         Key(results[p], cfg.init_choose_objective)
           <= Key(results[p + 1], cfg.init_choose_objective)
    /\ picked - 1 = (IF cfg.init_choose_strategy = "min" THEN 0
                     ELSE IF cfg.init_choose_strategy = "max" THEN cfg.n_init - 1
                     ELSE cfg.n_init \div 2)
    /\ labels_ = results[picked].labels
    /\ within_distances_ = results[picked].distances
    /\ n_iter_ = results[picked].n_iter

C11_Witness ==
  /\ pc = "done" /\ cfg.init_choose_strategy = "median" /\ cfg.n_init = 2
  /\ results[1].inertia < results[2].inertia
  /\ results[1].labels # results[2].labels
  /\ labels_ = results[2].labels

\* C12: the convergence test follows every iteration and none precedes the
\* first: a restart goes on to another iteration only when the fraction of
\* samples whose label the iteration changed is >= tol, stops at the first
\* iteration where it is < tol, and records that iteration's number; a
\* restart whose labels iteration 1 leaves unchanged records 1 iteration.
C12_StopsAtFirstStableIteration ==
  [][ /\ pc = "iter" =>
           /\ it' = it + 1
           /\ Converged(labels_', labels_, cfg.tol) => pc' = "score"
           /\ (pc' = "score" /\ it' < cfg.max_iter - 1)
                => Converged(labels_', labels_, cfg.tol)
      /\ (pc = "score" /\ Len(results') = Len(results) + 1)
           => results'[Len(results')].n_iter = it + 1
    ]_vars

\* Parameters that fit accepts: the three checks pass and both policies are
\* among those the code knows.
ValidParams ==
  /\ ~InvalidParams
  /\ cfg.dist_compensation_strategy \in KnownCompensation
  /\ cfg.init_choose_strategy \in KnownStrategy

\* C13: with valid parameters a fit call does not end in an error; every
\* restart runs at least 1 and at most max_iter iterations; a restart leaves
\* the loop without having converged only after max_iter iterations; fit
\* ends with exactly n_init recorded restarts and one selection among them.
C13_RestartsBoundedAndSelected ==
  (fits > 0 /\ ValidParams) =>
    /\ pc # "error"
    /\ it <= cfg.max_iter - 1 /\ i <= cfg.n_init
    /\ nDist <= cfg.n_init * cfg.max_iter
    /\ \A p \in 1..Len(results) : results[p].n_iter \in 1..cfg.max_iter
    /\ (pc = "score" /\ ~Converged(labels_, labels_old, cfg.tol))
         => it + 1 = cfg.max_iter
    /\ pc = "done" => (Len(results) = cfg.n_init /\ picked \in 1..cfg.n_init)

\* C14: whatever the kernel class and the scalar parameter, get_K returns
\* an n x n matrix for the adjacency matrix of an n-node graph, never None.
C14_GetKReturnsSquareMatrix ==
  kernel.param # -1 => kernel.K = Matrix(Len(kernel.A), Len(kernel.A))

\* C15: an iteration that finds an empty cluster resets the within-cluster
\* distances to zero and leaves the freshly drawn labeling (held by
\* labels_old after the pass) as the labels the next pass starts from: the
\* labels are not taken from the abandoned distance matrix.
C15_RecoveryKeepsFreshLabeling ==
  [][ (pc = "iter" /\ ~AllClustersUsed(labels_, cfg.n_clusters)) =>
        /\ within_distances_' = Zeros(cfg.n_clusters)
        /\ labels_' = labels_old'
    ]_vars

\* C16: when a restart is scored and recorded, the within-cluster distance
\* of each cluster and its column of the distance matrix are the values
\* that the labels being recorded give.
C16_ScoredFromRecordedLabels ==
  pc = "score" =>
    \A j \in 0..(cfg.n_clusters - 1) :
      Mask(labels_, j) # {} =>
        /\ within_distances_[j + 1] = WithinOf(X, sample_weight_, Mask(labels_, j))
        /\ \A r \in 1..Len(X) :
             dist[r][j + 1] = WithinOf(X, sample_weight_, Mask(labels_, j))
                                - CrossOf(X, sample_weight_, Mask(labels_, j), r)

\* dist(s, j) of C17 as the fraction DistNum / DistDen, for a non-empty
\* cluster C with weights sw:
\*   within - 2 * cross / d = (W - 2 * cross * d) / d^2
DistDen(sw, C) == Denom(sw, C) * Denom(sw, C)

DistNum(K, sw, C, s) ==
  Sum([p \in C |-> Sum([q \in C |-> sw[p] * sw[q] * K[p][q]], C)], C)
    - 2 * Sum([m \in C |-> sw[m] * K[s][m]], C) * Denom(sw, C)

\* dist(s, j1) <= dist(s, j2), compared without division
DistLeq(K, sw, labels, s, j1, j2) ==
  DistNum(K, sw, Mask(labels, j1), s) * DistDen(sw, Mask(labels, j2))
    <= DistNum(K, sw, Mask(labels, j2), s) * DistDen(sw, Mask(labels, j1))

LowestNearest(K, sw, labels, k, s) ==
  MinOf({j \in 0..(k - 1) :
           \A j2 \in 0..(k - 1) : DistLeq(K, sw, labels, s, j, j2)})

\* C17: an iteration that starts from an assignment without empty cluster
\* gives each sample the lowest cluster id that minimizes dist(s, j),
\* computed from that assignment.
C17_LowestNearestCluster ==
  [][ (pc = "iter" /\ AllClustersUsed(labels_, cfg.n_clusters)) =>
        \A s \in 1..Len(X) :
          labels_'[s] = LowestNearest(X, sample_weight_, labels_, cfg.n_clusters, s)
    ]_vars

C17_Witness ==
  /\ pc = "iter" /\ it = 0 /\ nRecover = 0
  /\ labels_old = <<0, 1, 0, 1>> /\ labels_ = <<0, 0, 0, 0>>

\* C18: for a restart that is scored and recorded, 'n iter exceeded' is
\* reported exactly when the convergence test of its last iteration failed;
\* a restart that converged, at iteration max_iter included, is not reported.
C18_ExceededOnlyWhenUnconverged ==
  [][ (pc = "score" /\ pc' = "restart") =>
        (exceeded' <=> ~Converged(labels_, labels_old, cfg.tol))
    ]_vars

\* C19: from the moment a restart has recorded its result until the
\* selection, no step of a later restart changes that record: the list of
\* results only grows at its end.
C19_RecordsKeptByLaterRestarts ==
  [][ (pc \in {"iter", "score"} \/ (pc = "restart" /\ i < cfg.n_init)) =>
        /\ Len(results') >= Len(results)
        /\ SubSeq(results', 1, Len(results)) = results
    ]_vars

C19_Witness ==
  /\ pc = "restart" /\ i = 2 /\ i < cfg.n_init /\ Len(results) = 2
  /\ results[1].labels # results[2].labels
  /\ results[1].distances # results[2].distances
  /\ results[1].inertia # results[2].inertia

\* C20: with an integer random_state, every pass of fit that recovers from
\* an empty cluster redraws the initial labeling of restart 0 (labels_old
\* holds the redraw after the pass) and takes no draw from the generator of
\* the restarts' initial labelings: restart r still starts from draw r + 1
\* of the seed.
C20_RecoveryReplaysFirstDraw ==
  [][ cfg.random_state = "int" =>
        /\ (pc = "iter" /\ nRecover' = nRecover + 1) =>
              (labels_old' = seedDraws[1] /\ seedDraws' = seedDraws)
        /\ (pc = "restart" /\ pc' = "iter") =>
              (Len(seedDraws') = i + 1 /\ labels_' = seedDraws'[i + 1])
    ]_vars

C20_Witness ==
  /\ cfg.random_state = "int" /\ pc = "score"
  /\ i = 1 /\ nRecover = 2
  /\ labels_old = seedDraws[1] /\ seedDraws[2] # seedDraws[1]

====
